---- MODULE Spec2Model ----
(***************************************************************************)
(* Model of the Discord betting-market bot (src/main.py).  The ledger is   *)
(* the SQLite database (tables markets, bet_offers, accepted_bets); the    *)
(* handlers are the bot's commands and reaction handlers.  Handlers are    *)
(* coroutines on one event loop: code between two awaits is one atomic     *)
(* step, and a handler that awaits user input is split at that await.      *)
(*                                                                         *)
(* A handler that rejects its request only sends a message: such a step    *)
(* leaves every variable unchanged.  SQLite does not enforce the foreign   *)
(* keys (the bot never sets PRAGMA foreign_keys).  Calls to the Discord    *)
(* API are taken to succeed, except inside create_market, whose INSERTs    *)
(* stay uncommitted across them (CreateMarketAbort).  src/market.py holds  *)
(* a class-based variant of the same handlers that main.py never imports.  *)
(*                                                                         *)
(* Spec is the bot in one run of the process.  The explanation handlers    *)
(* write nothing and are run in SpecExplain, with amounts of every sign;   *)
(* SpecFrame has two markets; SpecLive adds restarts of the process and    *)
(* the fairness of the event loop.                                         *)
(***************************************************************************)
EXTENDS Integers, Sequences, FiniteSets, TLC

\* ---- bounds of the model ----
NumUsers == 3
MaxMarkets == 1
MaxOffers == 1
MaxTime == 1
MaxInFlight == 1
\* markets and offers when resolutions are examined across markets
FrameMarkets == 2
FrameOffers == 2

\* ---- values ----
NULL == "NULL"
Users == {ToString(i) : i \in 1..NumUsers}
Times == 0..MaxTime

\* ---- inputs the handlers are driven with ----
\* authors of !createmarket (user ids are opaque: one author stands for any)
Creators == {"1"}
\* !createmarket: the option lists typed after the question mark
OptionInputs == {<<"Yes", "No">>, <<"Yes", "Yes">>, <<"Yes">>}
\* !resolvemarket: winning_outcome
OutcomeInputs == {"Yes", "No", "Maybe"}
\* users who react to offer a bet
Bettors == Users
\* replies to the target prompt: 'skip' (NULL) or a mention
TargetInputs == {NULL} \cup Users
\* message contents typed at the risk / winnings prompts
RiskInputs == {"10", "-5", "abc"}
AskInputs == {"20", "abc"}
\* mentions sent to the resolver prompt
ResolverInputs == Users
\* message contents typed at the two amount prompts when the explanations are examined:
\* float() accepts zero and negative numbers as well
ExplainRiskInputs == {"10", "0", "-5"}
ExplainAskInputs == {"20", "0", "5"}
\* replies to the timer prompt
TimeInputs == [kind : {"duration", "absolute"}, n : Times] \cup {[kind |-> "invalid", n |-> 0]}

VARIABLES
    markets,        \* table markets: sequence indexed by market_id
    offers,         \* table bet_offers: function bet_id -> row (deleted rows leave the domain)
    nextBetId,      \* AUTOINCREMENT counter of bet_offers
    offered_in,     \* history: the market each bet_id was offered in (kept after a DELETE)
    accepted,       \* table accepted_bets: sequence indexed by accepted_bet_id
    txn,            \* uncommitted write transaction of create_market (holds the write lock)
    active_markets, \* bot.active_markets: market ids whose message is cached
    active_bets,    \* bot.active_bets: bet ids whose message is cached
    tasks,          \* scheduled handle_market_countdown tasks
    flows,          \* handlers suspended at bot.wait_for / view.wait
    now,            \* datetime.datetime.now()
    report,         \* what the last successful resolve_market announced
    explanation     \* what the last handle_bet_explanation / explain_bet sent

vars == <<markets, offers, nextBetId, offered_in, accepted, txn, active_markets, active_bets,
          tasks, flows, now, report, explanation>>
ledger == <<markets, offers, accepted>>

NoTxn == [creator_id |-> NULL, options |-> <<>>]
NoReport == [market_id |-> 0, winning_outcome |-> NULL, results |-> <<>>]
NoEquity == [kind |-> "none", num |-> 0, den |-> 1]
NoExplanation == [kind |-> "none", bet_id |-> 0, bettor_id |-> NULL, lines |-> <<>>,
                  equity |-> NoEquity]

\* float(msg.content): the number a message parses to; ValueError outside the domain
FloatTable == [s \in {"10", "20", "0", "-5", "5"} |->
    CASE s = "10" -> 10 [] s = "20" -> 20 [] s = "0" -> 0 [] s = "-5" -> 0 - 5 [] s = "5" -> 5]
IsFloat(s) == s \in DOMAIN FloatTable
Float(s) == FloatTable[s]

\* the write lock of SQLite: a write by another connection raises OperationalError
Locked == txn # NoTxn
InFlight == Cardinality(flows) + (IF Locked THEN 1 ELSE 0)

MarketIds == 1..Len(markets)
BetIds == 1..MaxOffers

Init ==
    /\ markets = <<>>
    /\ offers = <<>>
    /\ nextBetId = 1
    /\ offered_in = <<>>
    /\ accepted = <<>>
    /\ txn = NoTxn
    /\ active_markets = {}
    /\ active_bets = {}
    /\ tasks = {}
    /\ flows = {}
    /\ now = 0
    /\ report = NoReport
    /\ explanation = NoExplanation

\* ---- create_market ----
\* lines 188-217: validation and the uncommitted INSERTs, up to the first await.
\* Fewer than two options, or a write while the database is locked: nothing happens.
CreateMarketBegin(u, opts) ==
    /\ Len(opts) >= 2
    /\ ~Locked
    /\ txn' = [creator_id |-> u, options |-> opts]
    /\ UNCHANGED <<markets, offers, nextBetId, offered_in, accepted, active_markets, active_bets,
                   tasks, flows, now, report, explanation>>

\* lines 197-199, or line 205 raising OperationalError: the command ends, nothing written
CreateMarketRejected(u, opts) ==
    /\ Len(opts) < 2 \/ Locked
    /\ UNCHANGED vars

\* lines 205-208: the row as inserted; resolver_id is not among the inserted columns
NewMarket(creator, opts) ==
    [creator_id |-> creator, resolver_id |-> NULL, status |-> "open",
     winning_outcome |-> NULL, close_time |-> NULL, options |-> opts]

\* lines 232-265: message sent, thread created, commit, cache entry
CreateMarketCommit ==
    /\ Locked
    /\ markets' = Append(markets, NewMarket(txn.creator_id, txn.options))
    /\ active_markets' = active_markets \cup {Len(markets) + 1}
    /\ txn' = NoTxn
    /\ UNCHANGED <<offers, nextBetId, offered_in, accepted, active_bets, tasks, flows, now, report,
                   explanation>>

\* an await of lines 232-247 raises: the with-block rolls the INSERTs back
CreateMarketAbort ==
    /\ Locked
    /\ txn' = NoTxn
    /\ UNCHANGED <<markets, offers, nextBetId, offered_in, accepted, active_markets, active_bets,
                   tasks, flows, now, report, explanation>>

\* ---- suspended handlers ----
Flow(kind, u, m, step, outcome, target, amount) ==
    [kind |-> kind, user |-> u, market_id |-> m, step |-> step,
     outcome |-> outcome, target |-> target, offer_amount |-> amount]

\* asyncio.TimeoutError of bot.wait_for / view.wait: the handler gives up
FlowTimeout(f) ==
    /\ f \in flows
    /\ flows' = flows \ {f}
    /\ UNCHANGED <<markets, offers, nextBetId, offered_in, accepted, txn, active_markets,
                   active_bets, tasks, now, report, explanation>>

\* ---- handle_set_market_resolver (reaction on a cached market message) ----
\* lines 526-559: creator and status checks, then the prompt; a failed check changes nothing
HandleSetMarketResolverBegin(u, m) ==
    /\ m \in active_markets
    /\ IF u = markets[m].creator_id /\ markets[m].status = "open"
       THEN flows' = flows \cup {Flow("resolver", u, m, "mention", NULL, NULL, 0)}
       ELSE UNCHANGED flows
    /\ UNCHANGED <<markets, offers, nextBetId, offered_in, accepted, txn, active_markets,
                   active_bets, tasks, now, report, explanation>>

\* lines 566-579: the creator's mention arrives; UPDATE resolver_id, commit
HandleSetMarketResolverFinish(f, r) ==
    /\ f \in flows /\ f.kind = "resolver"
    /\ flows' = flows \ {f}
    /\ markets' = IF Locked THEN markets
                  ELSE [markets EXCEPT ![f.market_id].resolver_id = r]
    /\ UNCHANGED <<offers, nextBetId, offered_in, accepted, txn, active_markets, active_bets,
                   tasks, now, report, explanation>>

\* ---- handle_set_market_timer (reaction on a cached market message) ----
\* HandleSetMarketTimerBegin without the creator check (lines 397-399 left out)
HandleSetMarketTimerBeginAnyone(u, m) ==
    /\ m \in active_markets
    /\ flows' = flows \cup {Flow("timer", u, m, "time", NULL, NULL, 0)}
    /\ UNCHANGED <<markets, offers, nextBetId, offered_in, accepted, txn, active_markets,
                   active_bets, tasks, now, report, explanation>>

\* lines 373-406: creator check only, then the prompt
HandleSetMarketTimerBegin(u, m) ==
    /\ m \in active_markets
    /\ IF u = markets[m].creator_id
       THEN flows' = flows \cup {Flow("timer", u, m, "time", NULL, NULL, 0)}
       ELSE UNCHANGED flows
    /\ UNCHANGED <<markets, offers, nextBetId, offered_in, accepted, txn, active_markets,
                   active_bets, tasks, now, report, explanation>>

\* lines 414-439: the deadline a reply parses to
Deadline(inp) == IF inp.kind = "duration" THEN now + inp.n ELSE inp.n

\* DeadlineAccepted without the comparison with now (lines 441-444 left out)
DeadlineAcceptedAnyTime(inp) == inp.kind # "invalid"

\* lines 441-444: the deadline is accepted only when it is in the future
DeadlineAccepted(inp) == inp.kind # "invalid" /\ ~(Deadline(inp) <= now)

\* lines 412-467: parse, validate, UPDATE close_time, commit, schedule the countdown
HandleSetMarketTimerFinish(f, inp) ==
    /\ f \in flows /\ f.kind = "timer"
    /\ flows' = flows \ {f}
    /\ IF DeadlineAccepted(inp) /\ ~Locked
       THEN /\ markets' = [markets EXCEPT
                              ![f.market_id].close_time = ToString(Deadline(inp))]
            /\ tasks' = tasks \cup {[market_id |-> f.market_id, deadline |-> Deadline(inp)]}
       ELSE UNCHANGED <<markets, tasks>>
    /\ UNCHANGED <<offers, nextBetId, offered_in, accepted, txn, active_markets, active_bets,
                   now, report, explanation>>

\* ---- handle_market_countdown ----
\* CloseRow with the UPDATE of lines 505-509 also clearing close_time
CloseRowClearingTime(mk) == [mk EXCEPT !.status = "closed", !.close_time = NULL]

\* lines 505-509: UPDATE markets SET status = 'closed' WHERE market_id = ?
CloseRow(mk) == [mk EXCEPT !.status = "closed"]

\* lines 498-513: once now >= deadline the task closes the market and ends
\* (OperationalError while the database is locked ends it without the update)
HandleMarketCountdown(t) ==
    /\ t \in tasks
    /\ now >= t.deadline
    /\ tasks' = tasks \ {t}
    /\ markets' = IF Locked THEN markets
                  ELSE [markets EXCEPT ![t.market_id] = CloseRow(markets[t.market_id])]
    /\ UNCHANGED <<offers, nextBetId, offered_in, accepted, txn, active_markets, active_bets,
                   flows, now, report, explanation>>

\* ---- handle_bet_offer_reaction (reaction on a cached market message) ----
\* lines 699-761: the market's status is read once, then the outcome menu is shown
HandleBetOfferReactionBegin(u, m) ==
    /\ m \in active_markets
    /\ IF markets[m].status = "open"
       THEN flows' = flows \cup {Flow("offer", u, m, "outcome", NULL, NULL, 0)}
       ELSE UNCHANGED flows
    /\ UNCHANGED <<markets, offers, nextBetId, offered_in, accepted, txn, active_markets,
                   active_bets, tasks, now, report, explanation>>

\* lines 772-773: the menu's selected index picks one of the market's options
HandleBetOfferOutcome(f, i) ==
    /\ f \in flows /\ f.kind = "offer" /\ f.step = "outcome"
    /\ i \in 1..Len(markets[f.market_id].options)
    /\ flows' = (flows \ {f}) \cup
           {[f EXCEPT !.step = "target", !.outcome = markets[f.market_id].options[i]]}
    /\ UNCHANGED <<markets, offers, nextBetId, offered_in, accepted, txn, active_markets,
                   active_bets, tasks, now, report, explanation>>

\* lines 793-797: 'skip' or a mention
HandleBetOfferTarget(f, t) ==
    /\ f \in flows /\ f.kind = "offer" /\ f.step = "target"
    /\ flows' = (flows \ {f}) \cup {[f EXCEPT !.step = "risk", !.target = t]}
    /\ UNCHANGED <<markets, offers, nextBetId, offered_in, accepted, txn, active_markets,
                   active_bets, tasks, now, report, explanation>>

\* HandleBetOfferRisk with a bet_offers row written as soon as the risk amount is known
HandleBetOfferRiskPersisting(f, s) ==
    /\ f \in flows /\ f.kind = "offer" /\ f.step = "risk"
    /\ flows' = IF IsFloat(s)
                THEN (flows \ {f}) \cup {[f EXCEPT !.step = "ask", !.offer_amount = Float(s)]}
                ELSE flows \ {f}
    /\ offers' = IF IsFloat(s)
                 THEN [b \in DOMAIN offers \cup {nextBetId} |->
                         IF b = nextBetId
                         THEN [market_id |-> f.market_id, bettor_id |-> f.user,
                               outcome |-> f.outcome, offer_amount |-> Float(s),
                               ask_amount |-> 0, status |-> "open",
                               target_user_id |-> f.target]
                         ELSE offers[b]]
                 ELSE offers
    /\ UNCHANGED <<markets, nextBetId, offered_in, accepted, txn, active_markets,
                   active_bets, tasks, now, report, explanation>>

\* lines 812-816 and 898-899: the risk amount, float() or ValueError
HandleBetOfferRisk(f, s) ==
    /\ f \in flows /\ f.kind = "offer" /\ f.step = "risk"
    /\ flows' = IF IsFloat(s)
                THEN (flows \ {f}) \cup {[f EXCEPT !.step = "ask", !.offer_amount = Float(s)]}
                ELSE flows \ {f}
    /\ UNCHANGED <<markets, offers, nextBetId, offered_in, accepted, txn, active_markets,
                   active_bets, tasks, now, report, explanation>>

\* lines 854-860: the row as inserted
NewOffer(f, ask) ==
    [market_id |-> f.market_id, bettor_id |-> f.user, outcome |-> f.outcome,
     offer_amount |-> f.offer_amount, ask_amount |-> ask, status |-> "open",
     target_user_id |-> f.target]

\* lines 836-862: whether the final step inserts; the market's status is not read again
InsertsOffer(f, s) == IsFloat(s) /\ ~Locked

\* lines 830-896: the winnings amount, then INSERT INTO bet_offers, commit, cache entry
HandleBetOfferAsk(f, s) ==
    /\ f \in flows /\ f.kind = "offer" /\ f.step = "ask"
    /\ flows' = flows \ {f}
    /\ IF InsertsOffer(f, s)
       THEN /\ offers' = [b \in DOMAIN offers \cup {nextBetId} |->
                            IF b = nextBetId THEN NewOffer(f, Float(s)) ELSE offers[b]]
            /\ nextBetId' = nextBetId + 1
            /\ offered_in' = Append(offered_in, f.market_id)
            /\ active_bets' = active_bets \cup {nextBetId}
       ELSE UNCHANGED <<offers, nextBetId, offered_in, active_bets>>
    /\ UNCHANGED <<markets, accepted, txn, active_markets, tasks, now, report, explanation>>

\* ---- handle_bet_acceptance (reaction on a cached bet message) ----
\* AcceptedRow with the row inserted as completed
AcceptedRowCompleted(b, u) == [bet_id |-> b, acceptor_id |-> u, status |-> "completed"]

\* lines 958-961: the row as inserted
AcceptedRow(b, u) == [bet_id |-> b, acceptor_id |-> u, status |-> "active"]

\* MayAccept without the check of the offer's status (lines 938-940 left out)
MayAcceptAnyStatus(u, b) ==
    /\ b \in DOMAIN offers
    /\ u # offers[b].bettor_id
    /\ markets[offers[b].market_id].status = "open"
    /\ ~(offers[b].target_user_id # NULL /\ u # offers[b].target_user_id)

\* MayAccept without the check of the market's status (lines 942-944 left out)
MayAcceptAnyMarket(u, b) ==
    /\ b \in DOMAIN offers
    /\ u # offers[b].bettor_id
    /\ offers[b].status = "open"
    /\ ~(offers[b].target_user_id # NULL /\ u # offers[b].target_user_id)

\* MayAccept without the check for the offer's own bettor (lines 934-936 left out)
MayAcceptOwnOffer(u, b) ==
    /\ b \in DOMAIN offers
    /\ offers[b].status = "open"
    /\ markets[offers[b].market_id].status = "open"
    /\ ~(offers[b].target_user_id # NULL /\ u # offers[b].target_user_id)

\* MayAccept without the check of the offer's target (lines 947-949 left out)
MayAcceptUntargeted(u, b) ==
    /\ b \in DOMAIN offers
    /\ u # offers[b].bettor_id
    /\ offers[b].status = "open"
    /\ markets[offers[b].market_id].status = "open"

\* lines 926-949: the checks an acceptance has to pass
MayAccept(u, b) ==
    /\ b \in DOMAIN offers
    /\ u # offers[b].bettor_id
    /\ offers[b].status = "open"
    /\ markets[offers[b].market_id].status = "open"
    /\ ~(offers[b].target_user_id # NULL /\ u # offers[b].target_user_id)

\* lines 912-963: checks, UPDATE bet_offers, INSERT INTO accepted_bets, commit, with no
\* await in between; line 982 then raises NameError, so the pop of line 985 never runs
HandleBetAcceptance(u, b) ==
    /\ b \in active_bets
    /\ IF MayAccept(u, b) /\ ~Locked
       THEN /\ offers' = [offers EXCEPT ![b].status = "accepted"]
            /\ accepted' = Append(accepted, AcceptedRow(b, u))
       ELSE UNCHANGED <<offers, accepted>>
    /\ UNCHANGED <<markets, nextBetId, offered_in, txn, active_markets, active_bets, tasks,
                   flows, now, report, explanation>>

\* ---- cancellation ----
\* MayCancel without the check of the owner (lines 598-600 and 1011-1013 left out)
MayCancelAnyone(u, b) == b \in DOMAIN offers

\* lines 591-601 and 1004-1014: the checks a cancellation has to pass
MayCancel(u, b) ==
    /\ b \in DOMAIN offers
    /\ u = offers[b].bettor_id

\* lines 603-605 and 1016-1018: DELETE FROM bet_offers WHERE bet_id = ?
DeleteOffer(b) == [x \in DOMAIN offers \ {b} |-> offers[x]]

\* lines 587-619: the cancel reaction on a cached bet message; the cache entry is popped
HandleBetCancellation(u, b) ==
    /\ b \in active_bets
    /\ IF MayCancel(u, b) /\ ~Locked
       THEN /\ offers' = DeleteOffer(b)
            /\ active_bets' = active_bets \ {b}
       ELSE UNCHANGED <<offers, active_bets>>
    /\ UNCHANGED <<markets, nextBetId, offered_in, accepted, txn, active_markets, tasks, flows,
                   now, report, explanation>>

\* lines 995-1027: !cancelbet <bet_id>
CancelBet(u, b) ==
    /\ offers' = IF MayCancel(u, b) /\ ~Locked THEN DeleteOffer(b) ELSE offers
    /\ UNCHANGED <<markets, nextBetId, offered_in, accepted, txn, active_markets, active_bets,
                   tasks, flows, now, report, explanation>>

\* ---- resolve_market ----
\* Authorized with the comparison against resolver_id left out of line 1146
AuthorizedCreatorOnly(u, mk) ==
    ~(mk.creator_id # NULL /\ mk.resolver_id # NULL /\ u # mk.creator_id)

\* lines 1144-1148: the requester check, made only when both ids are stored
Authorized(u, mk) ==
    ~(mk.creator_id # NULL /\ mk.resolver_id # NULL
      /\ u # mk.creator_id /\ u # mk.resolver_id)

\* ValidOutcome without the lookup in market_outcomes (lines 1155-1163 left out)
ValidOutcomeUnchecked(mk, w) == w \in OutcomeInputs

\* lines 1155-1163: the outcome must be one of the market's outcome rows
ValidOutcome(mk, w) == \E i \in 1..Len(mk.options) : mk.options[i] = w

\* lines 1136-1163: the checks a resolution has to pass
MayResolve(u, m, w) ==
    /\ m \in MarketIds
    /\ Authorized(u, markets[m])
    /\ markets[m].status # "resolved"
    /\ ValidOutcome(markets[m], w)

\* ActiveBetsOf without the filter ab.status = 'active' of line 1186
ActiveBetsOfAnyStatus(m) ==
    SelectSeq(accepted, LAMBDA ab :
        /\ ab.bet_id \in DOMAIN offers
        /\ offers[ab.bet_id].market_id = m)

\* lines 1173-1187: accepted_bets JOIN bet_offers of the market with ab.status = 'active'
ActiveBetsOf(m) ==
    SelectSeq(accepted, LAMBDA ab :
        /\ ab.bet_id \in DOMAIN offers
        /\ offers[ab.bet_id].market_id = m
        /\ ab.status = "active")

\* Settle with the two amounts exchanged
SettleSwapped(ab, w) ==
    IF offers[ab.bet_id].outcome = w
    THEN [bet_id |-> ab.bet_id, winner |-> offers[ab.bet_id].bettor_id,
          loser |-> ab.acceptor_id, win_amount |-> offers[ab.bet_id].offer_amount]
    ELSE [bet_id |-> ab.bet_id, winner |-> ab.acceptor_id,
          loser |-> offers[ab.bet_id].bettor_id,
          win_amount |-> offers[ab.bet_id].ask_amount]

\* lines 1225-1233: winner, loser and amount of one settled bet
Settle(ab, w) ==
    IF offers[ab.bet_id].outcome = w
    THEN [bet_id |-> ab.bet_id, winner |-> offers[ab.bet_id].bettor_id,
          loser |-> ab.acceptor_id, win_amount |-> offers[ab.bet_id].ask_amount]
    ELSE [bet_id |-> ab.bet_id, winner |-> ab.acceptor_id,
          loser |-> offers[ab.bet_id].bettor_id,
          win_amount |-> offers[ab.bet_id].offer_amount]

\* CompleteBets without the WHERE market_id = ? of lines 1194-1197
CompleteBetsEveryMarket(m) ==
    [i \in DOMAIN accepted |->
        IF accepted[i].bet_id \in DOMAIN offers
        THEN [accepted[i] EXCEPT !.status = "completed"]
        ELSE accepted[i]]

\* lines 1189-1198: every accepted_bets row whose offer row is in the market
CompleteBets(m) ==
    [i \in DOMAIN accepted |->
        IF accepted[i].bet_id \in DOMAIN offers /\ offers[accepted[i].bet_id].market_id = m
        THEN [accepted[i] EXCEPT !.status = "completed"]
        ELSE accepted[i]]

\* lines 1200-1205: the market's open offers become cancelled
CancelOpenOffers(m) ==
    [b \in DOMAIN offers |->
        IF offers[b].market_id = m /\ offers[b].status = "open"
        THEN [offers[b] EXCEPT !.status = "cancelled"]
        ELSE offers[b]]

\* lines 1120-1247: !resolvemarket <market_id> <winning_outcome>
ResolveMarket(u, m, w) ==
    /\ IF MayResolve(u, m, w) /\ ~Locked
       THEN /\ markets' = [markets EXCEPT ![m].status = "resolved",
                                          ![m].winning_outcome = w]
            /\ accepted' = CompleteBets(m)
            /\ offers' = CancelOpenOffers(m)
            /\ report' = [market_id |-> m, winning_outcome |-> w,
                          results |-> [i \in 1..Len(ActiveBetsOf(m)) |->
                                          Settle(ActiveBetsOf(m)[i], w)]]
       ELSE UNCHANGED <<markets, accepted, offers, report>>
    /\ UNCHANGED <<nextBetId, offered_in, txn, active_markets, active_bets, tasks, flows, now,
                   explanation>>

\* ---- handle_bet_explanation (reaction on a cached bet message) and explain_bet ----
\* BreakEvenEquity with the two comparisons of lines 674 and 676 in the other order
BreakEvenEquityGiftFirst(offer, ask) ==
    IF offer = 0 THEN [kind |-> "pure gift", num |-> 0, den |-> 1]
    ELSE IF ask = 0 THEN [kind |-> "free bet", num |-> 0, den |-> 1]
    ELSE IF ask + offer = 0 THEN [kind |-> "ZeroDivisionError", num |-> 0, den |-> 1]
    ELSE [kind |-> "percentage", num |-> 100 * ask, den |-> ask + offer]

\* BreakEvenEquity with the two classifications exchanged
BreakEvenEquityExchanged(offer, ask) ==
    IF ask = 0 THEN [kind |-> "pure gift", num |-> 0, den |-> 1]
    ELSE IF offer = 0 THEN [kind |-> "free bet", num |-> 0, den |-> 1]
    ELSE IF ask + offer = 0 THEN [kind |-> "ZeroDivisionError", num |-> 0, den |-> 1]
    ELSE [kind |-> "percentage", num |-> 100 * ask, den |-> ask + offer]

\* lines 673-680: the equity sentence; the percentage (ask / (ask + offer)) * 100 is kept
\* as the fraction num / den (the code computes it in floating point and prints one
\* decimal); a zero divisor raises ZeroDivisionError
BreakEvenEquity(offer, ask) ==
    IF ask = 0 THEN [kind |-> "free bet", num |-> 0, den |-> 1]
    ELSE IF offer = 0 THEN [kind |-> "pure gift", num |-> 0, den |-> 1]
    ELSE IF ask + offer = 0 THEN [kind |-> "ZeroDivisionError", num |-> 0, den |-> 1]
    ELSE [kind |-> "percentage", num |-> 100 * ask, den |-> ask + offer]

\* ExplanationLine with the two amounts exchanged
ExplanationLineSwapped(row, possible_outcome) ==
    IF possible_outcome = row.outcome
    THEN [outcome |-> possible_outcome, winner |-> "bettor", loser |-> "acceptor",
          amount |-> row.offer_amount]
    ELSE [outcome |-> possible_outcome, winner |-> "acceptor", loser |-> "bettor",
          amount |-> row.ask_amount]

\* lines 667-671 and 1426-1430: what the explanation says of one outcome of the market
ExplanationLine(row, possible_outcome) ==
    IF possible_outcome = row.outcome
    THEN [outcome |-> possible_outcome, winner |-> "bettor", loser |-> "acceptor",
          amount |-> row.ask_amount]
    ELSE [outcome |-> possible_outcome, winner |-> "acceptor", loser |-> "bettor",
          amount |-> row.offer_amount]

\* lines 641-671 and 1400-1430: one line for every outcome row of the offer's market
ExplanationLines(b) ==
    [i \in 1..Len(markets[offers[b].market_id].options) |->
        ExplanationLine(offers[b], markets[offers[b].market_id].options[i])]

\* lines 621-697: the explanation reaction; only reads the ledger.  A ZeroDivisionError of
\* line 679 leaves the handler before anything is sent
HandleBetExplanation(u, b) ==
    /\ b \in active_bets
    /\ explanation' =
          IF b \notin DOMAIN offers
          THEN [NoExplanation EXCEPT !.kind = "not found", !.bet_id = b]
          ELSE LET equity == BreakEvenEquity(offers[b].offer_amount, offers[b].ask_amount)
               IN  IF equity.kind = "ZeroDivisionError"
                   THEN [NoExplanation EXCEPT !.kind = "ZeroDivisionError", !.bet_id = b]
                   ELSE [kind |-> "explained", bet_id |-> b,
                         bettor_id |-> offers[b].bettor_id,
                         lines |-> ExplanationLines(b), equity |-> equity]
    /\ UNCHANGED <<markets, offers, nextBetId, offered_in, accepted, txn, active_markets,
                   active_bets, tasks, flows, now, report>>

\* lines 1376-1445: !explainbet <bet_id>; the same lines without the equity sentence
ExplainBet(u, b) ==
    /\ explanation' =
          IF b \notin DOMAIN offers
          THEN [NoExplanation EXCEPT !.kind = "not found", !.bet_id = b]
          ELSE [kind |-> "explained", bet_id |-> b, bettor_id |-> offers[b].bettor_id,
                lines |-> ExplanationLines(b), equity |-> NoEquity]
    /\ UNCHANGED <<markets, offers, nextBetId, offered_in, accepted, txn, active_markets,
                   active_bets, tasks, flows, now, report>>

\* datetime.datetime.now() advances
Tick ==
    /\ now' = now + 1
    /\ UNCHANGED <<markets, offers, nextBetId, offered_in, accepted, txn, active_markets,
                   active_bets, tasks, flows, report, explanation>>

\* ---- the bot: every handler, driven with the inputs above, within the bounds ----
CanSuspend == InFlight < MaxInFlight

Next ==
    \/ \E u \in Creators, opts \in OptionInputs :
          Len(markets) < MaxMarkets /\ CanSuspend /\ CreateMarketBegin(u, opts)
    \/ \E u \in Creators, opts \in OptionInputs : CreateMarketRejected(u, opts)
    \/ CreateMarketCommit
    \/ CreateMarketAbort
    \/ \E u \in Users, m \in MarketIds : CanSuspend /\ HandleSetMarketResolverBegin(u, m)
    \/ \E f \in flows, r \in ResolverInputs : HandleSetMarketResolverFinish(f, r)
    \/ \E u \in Users, m \in MarketIds : CanSuspend /\ HandleSetMarketTimerBegin(u, m)
    \/ \E f \in flows, inp \in TimeInputs : HandleSetMarketTimerFinish(f, inp)
    \/ \E f \in flows : FlowTimeout(f)
    \/ \E t \in tasks : HandleMarketCountdown(t)
    \/ \E u \in Bettors, m \in MarketIds :
          CanSuspend /\ nextBetId <= MaxOffers /\ HandleBetOfferReactionBegin(u, m)
    \/ \E f \in flows : \E i \in 1..Len(markets[f.market_id].options) :
          HandleBetOfferOutcome(f, i)
    \/ \E f \in flows, t \in TargetInputs : HandleBetOfferTarget(f, t)
    \/ \E f \in flows, s \in RiskInputs : HandleBetOfferRisk(f, s)
    \/ \E f \in flows, s \in AskInputs : HandleBetOfferAsk(f, s)
    \/ \E u \in Users, b \in BetIds : HandleBetAcceptance(u, b)
    \/ \E u \in Users, b \in BetIds : HandleBetCancellation(u, b)
    \/ \E u \in Users, b \in BetIds : CancelBet(u, b)
    \/ \E u \in Users, m \in 1..MaxMarkets, w \in OutcomeInputs : ResolveMarket(u, m, w)
    \/ now < MaxTime /\ Tick

Spec == Init /\ [][Next]_vars

\* ---- the explanations: one creator, one bettor, one acceptor, every sign of amount ----
\* handle_bet_explanation and explain_bet write nothing, so the bot above is the same
\* with or without them; here they run next to the handlers whose rows they read
NextExplain ==
    \/ Len(markets) < MaxMarkets /\ CanSuspend /\ CreateMarketBegin("1", <<"Yes", "No">>)
    \/ CreateMarketCommit
    \/ \E m \in MarketIds :
          CanSuspend /\ nextBetId <= MaxOffers /\ HandleBetOfferReactionBegin("2", m)
    \/ \E f \in flows : \E i \in 1..Len(markets[f.market_id].options) :
          HandleBetOfferOutcome(f, i)
    \/ \E f \in flows : HandleBetOfferTarget(f, NULL)
    \/ \E f \in flows, s \in ExplainRiskInputs : HandleBetOfferRisk(f, s)
    \/ \E f \in flows, s \in ExplainAskInputs : HandleBetOfferAsk(f, s)
    \/ \E b \in BetIds : HandleBetExplanation("3", b)
    \/ \E b \in BetIds : ExplainBet("3", b)
    \/ \E b \in BetIds : HandleBetAcceptance("3", b)
    \/ \E b \in BetIds : CancelBet("2", b)
    \/ \E m \in 1..MaxMarkets, w \in {"Yes", "No"} : ResolveMarket("1", m, w)

SpecExplain == Init /\ [][NextExplain]_vars

\* ---- several markets: one creator, one bettor, one acceptor, one pair of amounts ----
NextFrame ==
    \/ Len(markets) < FrameMarkets /\ CanSuspend /\ CreateMarketBegin("1", <<"Yes", "No">>)
    \/ CreateMarketCommit
    \/ \E m \in MarketIds :
          CanSuspend /\ nextBetId <= FrameOffers /\ HandleBetOfferReactionBegin("2", m)
    \/ \E f \in flows : \E i \in 1..Len(markets[f.market_id].options) :
          HandleBetOfferOutcome(f, i)
    \/ \E f \in flows : HandleBetOfferTarget(f, NULL)
    \/ \E f \in flows : HandleBetOfferRisk(f, "10")
    \/ \E f \in flows : HandleBetOfferAsk(f, "20")
    \/ \E b \in 1..FrameOffers : HandleBetAcceptance("3", b)
    \/ \E b \in 1..FrameOffers : CancelBet("2", b)
    \/ \E m \in 1..FrameMarkets, w \in {"Yes", "No"} : ResolveMarket("1", m, w)

SpecFrame == Init /\ [][NextFrame]_vars

\* ---- the timer across restarts of the process ----
\* (deadlines are taken within the time the model lets pass, so that every countdown
\* that is scheduled and kept does reach its deadline)
\* lines 121-172: the process is started again.  Everything held in memory is gone (the
\* suspended handlers, the countdown tasks, an uncommitted transaction); setup_hook
\* rebuilds the two caches from the rows with status open and schedules nothing
Restart ==
    /\ flows' = {}
    /\ tasks' = {}
    /\ txn' = NoTxn
    /\ active_markets' = {m \in MarketIds : markets[m].status = "open"}
    /\ active_bets' = {b \in DOMAIN offers : offers[b].status = "open"}
    /\ UNCHANGED <<markets, offers, nextBetId, offered_in, accepted, now, report,
                   explanation>>

NextLive ==
    \/ Len(markets) < MaxMarkets /\ CanSuspend /\ CreateMarketBegin("1", <<"Yes", "No">>)
    \/ CreateMarketCommit
    \/ \E m \in MarketIds : CanSuspend /\ HandleSetMarketResolverBegin("1", m)
    \/ \E f \in flows, r \in ResolverInputs : HandleSetMarketResolverFinish(f, r)
    \/ \E m \in MarketIds : CanSuspend /\ HandleSetMarketTimerBegin("1", m)
    \/ \E f \in flows, inp \in TimeInputs :
          Deadline(inp) <= MaxTime /\ HandleSetMarketTimerFinish(f, inp)
    \/ \E f \in flows : FlowTimeout(f)
    \/ \E t \in tasks : HandleMarketCountdown(t)
    \/ \E m \in 1..MaxMarkets, w \in {"Yes", "No"} : ResolveMarket("1", m, w)
    \/ now < MaxTime /\ Tick
    \/ Restart

\* the event loop keeps running the countdown tasks it holds, and time passes; nothing
\* obliges users to act or the process to be restarted
SpecLive ==
    /\ Init /\ [][NextLive]_vars
    /\ WF_vars(\E t \in tasks : HandleMarketCountdown(t))
    /\ WF_vars(now < MaxTime /\ Tick)

\* ======================= properties =======================
\* the accepted_bets rows that reference bet_id b
AcceptedOf(b) == {i \in DOMAIN accepted : accepted[i].bet_id = b}

\* C1: at most one accepted_bets row ever references an offer; a row is created only by
\* an attempt that finds the offer open and flips it to accepted, and no other or later
\* attempt on that offer creates a row.
C1_ExactlyOneAcceptance ==
    [][\A b \in BetIds :
          /\ Cardinality({i \in DOMAIN accepted' : accepted'[i].bet_id = b}) <= 1
          /\ Cardinality({i \in DOMAIN accepted' : accepted'[i].bet_id = b})
                 # Cardinality(AcceptedOf(b))
             => /\ AcceptedOf(b) = {}
                /\ b \in DOMAIN offers /\ offers[b].status = "open"
                /\ b \in DOMAIN offers' /\ offers'[b].status = "accepted"]_vars

\* an accepted offer whose message is still cached and which anyone may react to:
\* the state in which later acceptance attempts arrive
C1_Witness ==
    \E b \in DOMAIN offers :
        /\ offers[b].status = "accepted"
        /\ Cardinality(AcceptedOf(b)) = 1
        /\ b \in active_bets
        /\ offers[b].target_user_id = NULL

\* C2: winning_outcome is set if and only if the market's status is resolved.
C2_WinningIffResolved ==
    \A m \in MarketIds :
        (markets[m].winning_outcome # NULL) <=> (markets[m].status = "resolved")

\* C3: a resolve_market by a requester who is neither the creator nor the resolver of
\* the market changes neither the market nor any offer nor any accepted bet.
C3_UnauthorizedResolveRejected ==
    [][\A u \in Users, m \in MarketIds, w \in OutcomeInputs :
          (ResolveMarket(u, m, w)
             /\ u # markets[m].creator_id /\ u # markets[m].resolver_id)
          => UNCHANGED ledger]_vars

\* C4: the countdown's close step changes a status only from open to closed; on a
\* market that is closed or resolved it changes nothing.
C4_CloseOnlyFromOpen ==
    [][\A t \in tasks :
          (HandleMarketCountdown(t) /\ markets[t.market_id].status # "open")
          => UNCHANGED markets]_vars

\* C5: resolve_market on a market that has been resolved before (its winning_outcome
\* is set) changes nothing in the ledger.
C5_SecondResolveRejected ==
    [][\A u \in Users, m \in MarketIds, w \in OutcomeInputs :
          (ResolveMarket(u, m, w) /\ markets[m].winning_outcome # NULL)
          => UNCHANGED ledger]_vars

\* C6: a cancellation (reaction or !cancelbet) of an offer whose status is accepted or
\* cancelled leaves the ledger unchanged.
C6_CancelOnlyOpenOffers ==
    [][\A u \in Users, b \in DOMAIN offers :
          ((HandleBetCancellation(u, b) \/ CancelBet(u, b)) /\ offers[b].status # "open")
          => UNCHANGED ledger]_vars

\* C7: an accepted_bets row exists for a bet id if and only if that offer is in the
\* ledger with status accepted.
C7_AcceptedBetIffOfferAccepted ==
    \A b \in BetIds :
        (AcceptedOf(b) # {}) <=> (b \in DOMAIN offers /\ offers[b].status = "accepted")

\* C8: when resolve_market succeeds on market m, every accepted bet that was made on an
\* offer of m and is still active becomes completed and has exactly one entry in the
\* announced results.
C8_ResolveSettlesEveryActiveBet ==
    [][\A u \in Users, m \in MarketIds, w \in OutcomeInputs :
          (ResolveMarket(u, m, w) /\ markets'[m].status = "resolved"
             /\ markets[m].status # "resolved")
          => \A i \in DOMAIN accepted :
                (offered_in[accepted[i].bet_id] = m /\ accepted[i].status = "active")
                => /\ accepted'[i].status = "completed"
                   /\ Cardinality({k \in DOMAIN report'.results :
                          report'.results[k].bet_id = accepted[i].bet_id}) = 1]_vars

\* C9: every entry of the announced results names the bettor as winner with the offer's
\* ask_amount when the offer's outcome is the winning outcome, and otherwise the
\* acceptor with the offer's offer_amount; the loser is the other party of the bet.
C9_SettlementReport ==
    \A k \in DOMAIN report.results :
        LET e == report.results[k]
        IN  e.bet_id \in DOMAIN offers =>
            \E i \in AcceptedOf(e.bet_id) :
                IF offers[e.bet_id].outcome = report.winning_outcome
                THEN /\ e.winner = offers[e.bet_id].bettor_id
                     /\ e.win_amount = offers[e.bet_id].ask_amount
                     /\ e.loser = accepted[i].acceptor_id
                ELSE /\ e.winner = accepted[i].acceptor_id
                     /\ e.win_amount = offers[e.bet_id].offer_amount
                     /\ e.loser = offers[e.bet_id].bettor_id

\* a resolution has announced a settled bet whose offer is still in the ledger
C9_Witness ==
    \E k \in DOMAIN report.results :
        /\ report.results[k].bet_id \in DOMAIN offers
        /\ offers[report.results[k].bet_id].ask_amount
               # offers[report.results[k].bet_id].offer_amount

\* C10: a bet_offers row is inserted only while the stored status of its market is open.
C10_OfferOnlyInOpenMarket ==
    [][\A b \in DOMAIN offers' \ DOMAIN offers :
          markets[offers'[b].market_id].status = "open"]_vars

\* C11: in no state is a market resolved while an offer made in it is still open or an
\* accepted bet made on one of its offers is still active.
C11_NoPartialSettlement ==
    \A m \in MarketIds :
        markets[m].status = "resolved" =>
            /\ \A b \in DOMAIN offers :
                  offers[b].market_id = m => offers[b].status # "open"
            /\ \A i \in DOMAIN accepted :
                  offered_in[accepted[i].bet_id] = m => accepted[i].status # "active"

\* C12: a successful resolve_market on market m completes every accepted bet made on an
\* offer of m that was active, cancels every offer of m that was open, and leaves the
\* accepted offers of m accepted.
C12_ResolveFanOut ==
    [][\A u \in Users, m \in MarketIds, w \in OutcomeInputs :
          (ResolveMarket(u, m, w) /\ markets'[m].status = "resolved"
             /\ markets[m].status # "resolved")
          => /\ \A i \in DOMAIN accepted :
                   (offered_in[accepted[i].bet_id] = m /\ accepted[i].status = "active")
                   => accepted'[i].status = "completed"
             /\ \A b \in DOMAIN offers :
                   offers[b].market_id = m
                   => /\ b \in DOMAIN offers'
                      /\ offers[b].status = "open" => offers'[b].status = "cancelled"
                      /\ offers[b].status = "accepted" => offers'[b].status = "accepted"]_vars

\* the outcome names of market m
OutcomesOf(m) == {markets[m].options[i] : i \in 1..Len(markets[m].options)}

\* C13: a market's winning_outcome, when set, is one of that market's own outcome names,
\* and a resolve_market whose outcome is not among them changes nothing in the ledger.
C13_WinningOutcomeValid ==
    /\ [](\A m \in MarketIds :
            markets[m].winning_outcome # NULL => markets[m].winning_outcome \in OutcomesOf(m))
    /\ [][\A u \in Users, m \in MarketIds, w \in OutcomeInputs :
             (ResolveMarket(u, m, w) /\ w \notin OutcomesOf(m)) => UNCHANGED ledger]_vars

\* a market has been resolved with one of its outcomes
C13_Witness ==
    \E m \in MarketIds :
        markets[m].status = "resolved" /\ markets[m].winning_outcome \in OutcomesOf(m)

\* C14: every bet_offers row has offer_amount > 0 and ask_amount >= 0.
C14_AmountsValid ==
    \A b \in DOMAIN offers : offers[b].offer_amount > 0 /\ offers[b].ask_amount >= 0

\* C15: an accepted_bets row is inserted only in a step that finds the stored status of
\* the offer open and the stored status of its market open; an acceptance of an offer
\* that is not open, or whose market is closed or resolved, leaves the ledger unchanged.
C15_AcceptOnlyWhenOpen ==
    [][/\ \A i \in DOMAIN accepted' \ DOMAIN accepted :
             /\ accepted'[i].bet_id \in DOMAIN offers
             /\ offers[accepted'[i].bet_id].status = "open"
             /\ markets[offers[accepted'[i].bet_id].market_id].status = "open"
       /\ \A u \in Users, b \in DOMAIN offers :
             (HandleBetAcceptance(u, b)
                /\ (offers[b].status # "open" \/ markets[offers[b].market_id].status # "open"))
             => UNCHANGED ledger]_vars

\* an open offer whose message is cached while its market is no longer open: the state
\* in which a reaction to accept it arrives and is turned down
C15_Witness ==
    \E b \in DOMAIN offers :
        /\ b \in active_bets
        /\ offers[b].status = "open"
        /\ markets[offers[b].market_id].status # "open"

\* C16: no accepted_bets row names as acceptor the bettor of the offer it references,
\* and an acceptance attempted by the offer's own bettor leaves the ledger unchanged.
C16_NoSelfAcceptance ==
    /\ [](\A i \in DOMAIN accepted :
            accepted[i].bet_id \in DOMAIN offers
            => accepted[i].acceptor_id # offers[accepted[i].bet_id].bettor_id)
    /\ [][\A b \in DOMAIN offers :
             HandleBetAcceptance(offers[b].bettor_id, b) => UNCHANGED ledger]_vars

\* an offer has been accepted and is still in the ledger, next to its accepted_bets row
C16_Witness ==
    \E i \in DOMAIN accepted :
        /\ accepted[i].bet_id \in DOMAIN offers
        /\ offers[accepted[i].bet_id].status = "accepted"
        /\ accepted[i].bet_id \in active_bets

\* C17: every accepted_bets row whose offer has a target names that target as acceptor,
\* and an acceptance of a targeted offer by anyone else leaves the ledger unchanged.
C17_TargetOnly ==
    /\ [](\A i \in DOMAIN accepted :
            (accepted[i].bet_id \in DOMAIN offers
               /\ offers[accepted[i].bet_id].target_user_id # NULL)
            => accepted[i].acceptor_id = offers[accepted[i].bet_id].target_user_id)
    /\ [][\A u \in Users, b \in DOMAIN offers :
             (HandleBetAcceptance(u, b) /\ offers[b].target_user_id # NULL
                /\ u # offers[b].target_user_id)
             => UNCHANGED ledger]_vars

\* a targeted offer has been accepted
C17_Witness ==
    \E i \in DOMAIN accepted :
        /\ accepted[i].bet_id \in DOMAIN offers
        /\ offers[accepted[i].bet_id].target_user_id # NULL
        /\ offers[accepted[i].bet_id].status = "accepted"

\* C18: a cancellation (reaction or !cancelbet) that succeeds on an open offer leaves the
\* offer's row in the ledger with status cancelled and every other field as it was.
C18_CancelKeepsOfferCancelled ==
    [][\A u \in Users, b \in DOMAIN offers :
          ((HandleBetCancellation(u, b) \/ CancelBet(u, b))
             /\ offers[b].status = "open" /\ offers' # offers)
          => /\ b \in DOMAIN offers'
             /\ offers'[b] = [offers[b] EXCEPT !.status = "cancelled"]]_vars

\* C19: a cancellation (reaction or !cancelbet) requested by a user who is not the
\* offer's bettor leaves the ledger unchanged.
C19_CancelByOwnerOnly ==
    [][\A u \in Users, b \in DOMAIN offers :
          ((HandleBetCancellation(u, b) \/ CancelBet(u, b)) /\ u # offers[b].bettor_id)
          => UNCHANGED ledger]_vars

\* an open offer of an open market whose message is cached: users other than its bettor
\* can react to cancel it or send !cancelbet
C19_Witness ==
    \E b \in DOMAIN offers :
        /\ b \in active_bets
        /\ offers[b].status = "open"
        /\ markets[offers[b].market_id].status = "open"
        /\ \E u \in Users : u # offers[b].bettor_id

\* C20: a market row is created with status open and with resolver_id equal to its
\* creator_id.
C20_ResolverDefaultsToCreator ==
    [][\A m \in DOMAIN markets' \ DOMAIN markets :
          /\ markets'[m].status = "open"
          /\ markets'[m].resolver_id = markets'[m].creator_id]_vars

\* C21: every markets row has at least two outcomes, none of them blank and no two of
\* them equal.
C21_OutcomesValid ==
    \A m \in MarketIds :
        /\ Len(markets[m].options) >= 2
        /\ \A i \in 1..Len(markets[m].options) : markets[m].options[i] # ""
        /\ \A i, j \in 1..Len(markets[m].options) :
              i # j => markets[m].options[i] # markets[m].options[j]

\* C22: a request to set the resolver or the timer of a market by a user who is not the
\* market's creator changes no market row, schedules no countdown and prompts nobody;
\* every prompt that is pending for a resolver or a deadline was opened by the creator.
C22_CreatorOnly ==
    /\ [](\A f \in flows :
            f.kind \in {"resolver", "timer"} => f.user = markets[f.market_id].creator_id)
    /\ [][\A u \in Users, m \in MarketIds :
             ((HandleSetMarketResolverBegin(u, m) \/ HandleSetMarketTimerBegin(u, m))
                /\ u # markets[m].creator_id)
             => UNCHANGED <<markets, tasks, flows>>]_vars

\* an open market whose message is cached and on which nothing has been set: users other
\* than its creator can react to it with the resolver and timer emojis
C22_Witness ==
    \E m \in active_markets :
        /\ markets[m].status = "open"
        /\ markets[m].resolver_id = NULL /\ markets[m].close_time = NULL
        /\ flows = {} /\ tasks = {}
        /\ \E u \in Users : u # markets[m].creator_id

\* C23: once a resolver r is stored for market m (not yet resolved), a resolve_market on
\* m with a valid outcome resolves m exactly when it is requested by r or by the creator;
\* requested by anybody else, a formerly assigned resolver included, it does not.
\* (A write made while create_market holds its uncommitted transaction fails for every
\* requester alike; the states in which it does are left out.)
C23_ResolverAuthorization ==
    \A m \in MarketIds :
        (markets[m].resolver_id # NULL /\ markets[m].status # "resolved" /\ ~Locked)
        => \A u \in Users, w \in OutcomesOf(m) :
              (ENABLED (ResolveMarket(u, m, w) /\ markets'[m].status = "resolved"
                          /\ markets'[m].winning_outcome = w))
              <=> u \in {markets[m].creator_id, markets[m].resolver_id}

\* a resolver other than the creator is stored for a market that is not resolved, so
\* that three kinds of requester exist: the creator, the resolver and a third user
C23_Witness ==
    \E m \in MarketIds :
        /\ markets[m].resolver_id # NULL
        /\ markets[m].resolver_id # markets[m].creator_id
        /\ markets[m].status # "resolved"
        /\ ~Locked
        /\ \E u \in Users : u \notin {markets[m].creator_id, markets[m].resolver_id}

\* C24: no step changes the resolver_id of a market whose stored status is closed or
\* resolved.
C24_ResolverFrozenWhenNotOpen ==
    [][\A m \in MarketIds :
          markets[m].status # "open" => markets'[m].resolver_id = markets[m].resolver_id]_vars

\* C25: a close_time is written, and a countdown scheduled, only for a deadline later
\* than the time of the step that evaluates it; a reply that parses to a deadline not
\* later than that time changes neither close_time nor the scheduled countdowns.
C25_DeadlineInFuture ==
    [][/\ \A t \in tasks' \ tasks : t.deadline > now
       /\ \A m \in MarketIds :
             markets'[m].close_time # markets[m].close_time
             => \E t \in tasks' :
                   /\ t.market_id = m /\ t.deadline > now
                   /\ markets'[m].close_time = ToString(t.deadline)
       /\ \A f \in flows, inp \in TimeInputs :
             (HandleSetMarketTimerFinish(f, inp) /\ inp.kind # "invalid"
                /\ (IF inp.kind = "duration" THEN now + inp.n ELSE inp.n) <= now)
             => UNCHANGED <<markets, tasks>>]_vars

\* a deadline has been persisted and its countdown is scheduled
C25_Witness ==
    \E t \in tasks :
        /\ markets[t.market_id].close_time = ToString(t.deadline)
        /\ t.deadline > 0

\* C26: a market's status becomes closed only in a step taken at or after the deadline
\* that is persisted as the market's close_time at that moment.
C26_ClosedAtPersistedDeadline ==
    [][\A m \in MarketIds :
          (markets'[m].status = "closed" /\ markets[m].status # "closed")
          => \E d \in 0..(2 * MaxTime) :
                /\ markets[m].close_time = ToString(d)
                /\ now >= d]_vars

\* C27: the step in which a countdown closes a market changes nothing but the status of
\* that market's row: every other market row, every field of every offer and every
\* accepted bet is as before, so the open offers of the closed market are still open.
C27_CloseChangesOnlyStatus ==
    [][\A t \in tasks :
          HandleMarketCountdown(t)
          => /\ offers' = offers
             /\ accepted' = accepted
             /\ \A m \in MarketIds :
                   markets'[m] = IF m = t.market_id
                                 THEN [markets[m] EXCEPT !.status = markets'[m].status]
                                 ELSE markets[m]]_vars

\* a market has been closed by its countdown while an offer made in it is open
C27_Witness ==
    \E b \in DOMAIN offers :
        /\ offers[b].status = "open"
        /\ markets[offers[b].market_id].status = "closed"
        /\ markets[offers[b].market_id].close_time # NULL

\* C28: while a market's status is open or closed, a resolve_market with one of its
\* outcomes by its creator or its stored resolver resolves it and completes every
\* active accepted bet made on one of its offers.
C28_ResolveOpenOrClosed ==
    \A m \in MarketIds :
        markets[m].status \in {"open", "closed"}
        => \A u \in {markets[m].creator_id, markets[m].resolver_id} \ {NULL},
              w \in OutcomesOf(m) :
              ENABLED (/\ ResolveMarket(u, m, w)
                       /\ markets'[m].status = "resolved"
                       /\ \A i \in DOMAIN accepted :
                             (offered_in[accepted[i].bet_id] = m
                                /\ accepted[i].status = "active")
                             => accepted'[i].status = "completed")

\* C29: the steps of the offer flow before the winnings amount (the reaction, the outcome
\* menu, the target and the risk amount), a timeout at any prompt, and a winnings reply
\* that is not a number leave markets, bet_offers, accepted_bets and the bet id counter
\* as they were.
C29_OfferFlowWritesOnlyAtEnd ==
    [][/\ \A u \in Bettors, m \in MarketIds :
             HandleBetOfferReactionBegin(u, m) => UNCHANGED <<ledger, nextBetId>>
       /\ \A f \in flows :
             f.kind = "offer"
             => /\ FlowTimeout(f) => UNCHANGED <<ledger, nextBetId>>
                /\ (\E i \in 1..Len(markets[f.market_id].options) :
                       HandleBetOfferOutcome(f, i)) => UNCHANGED <<ledger, nextBetId>>
                /\ (\E t \in TargetInputs : HandleBetOfferTarget(f, t))
                   => UNCHANGED <<ledger, nextBetId>>
                /\ (\E s \in RiskInputs : HandleBetOfferRisk(f, s))
                   => UNCHANGED <<ledger, nextBetId>>
                /\ (\E s \in AskInputs : ~IsFloat(s) /\ HandleBetOfferAsk(f, s))
                   => UNCHANGED <<ledger, nextBetId>>]_vars

\* an offer flow has reached its last prompt and no offer has been persisted so far
C29_Witness ==
    \E f \in flows :
        /\ f.kind = "offer" /\ f.step = "ask"
        /\ DOMAIN offers = {} /\ nextBetId = 1

\* C30: at no point at which handlers are suspended does one of them hold an uncommitted
\* write transaction (every state of the model is such a point).
C30_NoTransactionAcrossAwait == txn = NoTxn

\* the last explanation sent by the reaction handler is about offer b, whose row is in
\* the ledger (the amounts of a row never change)
EquityExplained(b) ==
    /\ b \in DOMAIN offers
    /\ explanation.kind = "explained" /\ explanation.bet_id = b
    /\ explanation.equity.kind # "none"

\* C31: the equity sentence of an explanation is the free-bet classification when the
\* offer's ask_amount is 0, the pure-gift classification when its offer_amount is 0 and
\* its ask_amount is not, and the percentage 100 * ask_amount / (ask_amount +
\* offer_amount) only when both amounts are non-zero.
C31_EquityClassification ==
    \A b \in BetIds :
        EquityExplained(b) =>
            LET offer == offers[b].offer_amount
                ask == offers[b].ask_amount
                equity == explanation.equity
            IN  /\ ask = 0 => equity.kind = "free bet"
                /\ (offer = 0 /\ ask # 0) => equity.kind = "pure gift"
                /\ equity.kind = "percentage"
                   => /\ offer # 0 /\ ask # 0
                      /\ equity.num = 100 * ask /\ equity.den = ask + offer
                /\ equity.kind \in {"free bet", "pure gift", "percentage"}

\* an offer with both amounts zero has been explained: the case in which the order of
\* the two comparisons decides the classification
C31_Witness ==
    \E b \in BetIds :
        /\ EquityExplained(b)
        /\ offers[b].offer_amount = 0 /\ offers[b].ask_amount = 0

\* C32 as stated: an offer with offer_amount 0 and ask_amount 20 is explained as a free
\* bet, and an offer with offer_amount 10 and ask_amount 0 as a pure gift.
C32_ExamplesAsStated ==
    \A b \in BetIds :
        EquityExplained(b) =>
            /\ (offers[b].offer_amount = 0 /\ offers[b].ask_amount = 20)
               => explanation.equity.kind = "free bet"
            /\ (offers[b].offer_amount = 10 /\ offers[b].ask_amount = 0)
               => explanation.equity.kind = "pure gift"

\* C32, amended: an offer with offer_amount 0 and ask_amount 20 is explained as a pure
\* gift, and an offer with offer_amount 10 and ask_amount 0 as a free bet.
C32_Examples ==
    \A b \in BetIds :
        EquityExplained(b) =>
            /\ (offers[b].offer_amount = 0 /\ offers[b].ask_amount = 20)
               => explanation.equity.kind = "pure gift"
            /\ (offers[b].offer_amount = 10 /\ offers[b].ask_amount = 0)
               => explanation.equity.kind = "free bet"

\* an offer with offer_amount 0 and ask_amount 20 has been explained
C32_Witness ==
    \E b \in BetIds :
        /\ EquityExplained(b)
        /\ offers[b].offer_amount = 0 /\ offers[b].ask_amount = 20

\* C38: no explanation of a persisted offer ends in an error: the equity computation
\* never raises ZeroDivisionError.
C38_ExplainNeverFails == explanation.kind # "ZeroDivisionError"

\* C39: when a resolution announces a bet that has been explained, the line of the
\* explanation for the winning outcome names the announced winner (the offer's bettor, or
\* the acceptor of the bet), the announced loser and the announced win_amount.
C39_ExplanationAgreesWithSettlement ==
    \A k \in DOMAIN report.results :
        LET e == report.results[k]
        IN  (explanation.kind = "explained" /\ explanation.bet_id = e.bet_id)
            => \A i \in DOMAIN explanation.lines :
                  explanation.lines[i].outcome = report.winning_outcome
                  => LET line == explanation.lines[i]
                         party == [p \in {"bettor", "acceptor"} |->
                                     IF p = "bettor" THEN {explanation.bettor_id}
                                     ELSE {accepted[j].acceptor_id : j \in AcceptedOf(e.bet_id)}]
                     IN  /\ line.amount = e.win_amount
                         /\ e.winner \in party[line.winner]
                         /\ e.loser \in party[line.loser]

\* a bet that has been explained is announced by a resolution, with different amounts at
\* stake on the two sides
C39_Witness ==
    \E k \in DOMAIN report.results :
        /\ explanation.kind = "explained"
        /\ explanation.bet_id = report.results[k].bet_id
        /\ \E i, j \in DOMAIN explanation.lines :
              explanation.lines[i].amount # explanation.lines[j].amount

\* the snapshot a resolution of market m reads: the accepted bets that are active and
\* whose offer row belongs to m
SnapshotOf(m) ==
    {i \in DOMAIN accepted :
        /\ accepted[i].status = "active"
        /\ accepted[i].bet_id \in DOMAIN offers
        /\ offers[accepted[i].bet_id].market_id = m}

C34_ResolvedAtMostOnce ==
    [][\A m \in MarketIds :
          /\ markets[m].winning_outcome # NULL
             => markets'[m].winning_outcome = markets[m].winning_outcome
          /\ markets[m].status = "resolved" => markets'[m].status = "resolved"]_vars

\* C35: no step changes or deletes a bet_offers row whose status is accepted or cancelled.
C35_OfferTerminalStates ==
    [][\A b \in DOMAIN offers :
          offers[b].status # "open" => (b \in DOMAIN offers' /\ offers'[b] = offers[b])]_vars

\* C37: every accepted_bets row is active or completed, never void; a completed row
\* belongs to an offer whose market has been given a winning outcome; and a row changes
\* only in a step of resolve_market that resolves the market of its offer, from active
\* to completed.
C37_CompletedOnlyByResolution ==
    /\ [](\A i \in DOMAIN accepted :
            /\ accepted[i].status \in {"active", "completed"}
            /\ accepted[i].status = "completed"
               => markets[offered_in[accepted[i].bet_id]].winning_outcome # NULL)
    /\ [][\A i \in DOMAIN accepted :
             accepted'[i] # accepted[i]
             => LET m == offered_in[accepted[i].bet_id]
                IN  /\ accepted[i].status = "active"
                    /\ accepted'[i] = [accepted[i] EXCEPT !.status = "completed"]
                    /\ markets[m].status # "resolved" /\ markets'[m].status = "resolved"
                    /\ \E u \in Users, w \in OutcomeInputs : ResolveMarket(u, m, w)]_vars

\* an accepted bet has been completed by the resolution of its market
C37_Witness ==
    \E i \in DOMAIN accepted :
        /\ accepted[i].status = "completed"
        /\ markets[offered_in[accepted[i].bet_id]].status = "resolved"
        /\ report.market_id = offered_in[accepted[i].bet_id]

\* the deadline persisted for market m has elapsed
DeadlineElapsed(m) ==
    \E d \in 0..(2 * MaxTime) : markets[m].close_time = ToString(d) /\ now >= d

\* C36: a market that is open when its persisted deadline has elapsed is eventually
\* closed (or has been resolved in the meantime).
C36_EventuallyClosed ==
    \A m \in 1..MaxMarkets :
        (m \in MarketIds /\ markets[m].status = "open" /\ DeadlineElapsed(m))
        ~> (m \in MarketIds /\ markets[m].status # "open")

\* C40: a step of resolve_market on market m leaves every other market row as it was,
\* changes nothing of m's row but status and winning_outcome, changes no offer but the
\* status of the open offers of m, deletes and inserts no offer, and changes no accepted
\* bet but the status of those made on an offer of m.
C40_ResolveFrame ==
    [][\A u \in Users, m \in MarketIds, w \in OutcomeInputs :
          ResolveMarket(u, m, w)
          => /\ Len(markets') = Len(markets)
             /\ \A k \in MarketIds \ {m} : markets'[k] = markets[k]
             /\ markets'[m] = [markets[m] EXCEPT !.status = markets'[m].status,
                                                 !.winning_outcome = markets'[m].winning_outcome]
             /\ DOMAIN offers' = DOMAIN offers
             /\ \A b \in DOMAIN offers :
                   /\ offers'[b] = [offers[b] EXCEPT !.status = offers'[b].status]
                   /\ (offers[b].market_id # m \/ offers[b].status # "open")
                      => offers'[b] = offers[b]
             /\ Len(accepted') = Len(accepted)
             /\ \A i \in DOMAIN accepted :
                   /\ accepted'[i] = [accepted[i] EXCEPT !.status = accepted'[i].status]
                   /\ offered_in[accepted[i].bet_id] # m => accepted'[i] = accepted[i]]_vars

\* a market has been resolved, which cancelled an open offer of its own, while another
\* market is not resolved and has an active accepted bet
C40_Witness ==
    \E m, k \in MarketIds :
        /\ m # k
        /\ markets[m].status = "resolved" /\ markets[k].status = "open"
        /\ \E b \in DOMAIN offers : offers[b].market_id = m /\ offers[b].status = "cancelled"
        /\ \E i \in DOMAIN accepted :
              offered_in[accepted[i].bet_id] = k /\ accepted[i].status = "active"
====
